---- MODULE Spec2Model ----
(***************************************************************************)
(* The entity/component/system core of src/ECS/ECS.h and src/ECS/ECS.cpp:  *)
(* component type ids, component pools, entity signatures, systems and the *)
(* Registry with its deferred system membership.                           *)
(*                                                                         *)
(* Indices: the C++ containers are 0-based, TLA+ sequences are 1-based, so *)
(* C++ v[i] is v[i + 1] here.                                              *)
(***************************************************************************)
EXTENDS Integers, Sequences, FiniteSets, TLC

\* ECS.h:11 sets MAX_COMPONENTS = 32.  The model keeps the signature a
\* bitset of MAX_COMPONENTS bits but narrows it, so that one more component
\* kind than the signature has bits can be instantiated.
MAX_COMPONENTS == 2

\* ECS.h:99, Pool(int size = 100).  Narrowed with MaxEntities, so that an
\* entity id beyond a freshly made pool exists.
PoolDefaultSize == 1

\* The number of entities the driver creates.
MaxEntities == 2

\* The component types the program instantiates Component<T> with.
Kinds == {"A", "B", "C"}

\* The system types the program instantiates AddSystem<TSystem> with.
SysKinds == {"S1", "S2"}

\* Component payloads: a default-constructed T and the values of the
\* constructor arguments of AddComponent.
DefaultValue == 0
Values == {1, 2}

\* Signature, ECS.h:16: the set of the bit positions that are 1.
Signature == SUBSET (0 .. MAX_COMPONENTS - 1)

\* The static local of Component<T>::GetId before its first call.
Unset == -1

VARIABLES
    numEntities,               \* Registry::numEntities
    entityComponentSignatures, \* the storage of the vector, one slot per unit of capacity()
    signaturesSize,            \* entityComponentSignatures.size()
    componentPools,            \* Registry::componentPools
    systems,                   \* Registry::systems, system kind -> System
    entitiesToBeAdded,         \* Registry::entitiesToBeAdded
    entitiesToBeKilled,        \* Registry::entitiesToBeKilled
    nextId,                    \* IComponent::nextId
    id,                        \* the static local id of Component<T>::GetId, per T
    ret,                       \* how the last call ended
    created,                   \* history: the ids CreateEntity returned, in order
    firstUse,                  \* history: the kinds in the order of their first GetId
    sinceUpdate,               \* history: the entities created since the last Update
    drained                    \* history: per drained entity, its signature when Update
                               \* drained it and the systems, registered then and since,
                               \* whose signature it contained

vars == <<numEntities, entityComponentSignatures, signaturesSize, componentPools,
          systems, entitiesToBeAdded, entitiesToBeKilled, nextId, id, ret,
          created, firstUse, sinceUpdate, drained>>

registryVars == <<numEntities, entityComponentSignatures, signaturesSize,
                  componentPools, systems, entitiesToBeAdded, entitiesToBeKilled>>

----------------------------------------------------------------------------
(* Component<T>::GetId *)

\* Fault: the id is not static, "auto id = nextId++;": every call takes a new id.
GetIdNoStatic(ids, nxt, k) ==
    [ret |-> nxt, id |-> [ids EXCEPT ![k] = nxt], nextId |-> nxt + 1]

\* static auto id = nextId++; return id;
\* The initialiser runs on the first call for T only.
GetId(ids, nxt, k) ==
    IF ids[k] = Unset
    THEN [ret |-> nxt, id |-> [ids EXCEPT ![k] = nxt], nextId |-> nxt + 1]
    ELSE [ret |-> ids[k], id |-> ids, nextId |-> nxt]

\* history of the first uses
Used(order, k) == IF \E i \in 1 .. Len(order) : order[i] = k THEN order ELSE Append(order, k)

----------------------------------------------------------------------------
(* Pool<T> *)

\* a null shared_ptr<IPool>, and a Pool<T> with its vector data
NullPool == [alloc |-> FALSE, data |-> <<>>]

\* Pool(int size = 100) { data.resize(size); }
NewPool == [alloc |-> TRUE, data |-> [i \in 1 .. PoolDefaultSize |-> DefaultValue]]

\* data.size()
GetSize(pool) == Len(pool.data)

\* Fault: "data.assign(n, T());", which default-constructs every element.
ResizeClearing(pool, n) == [pool EXCEPT !.data = [i \in 1 .. n |-> DefaultValue]]

\* Fault: "data.resize(n - 1);", one element short.
ResizeShort(pool, n) ==
    [pool EXCEPT !.data = [i \in 1 .. n - 1 |-> IF i <= Len(pool.data) THEN pool.data[i]
                                                                      ELSE DefaultValue]]


\* data.resize(n): keeps the first n elements, default-constructs the rest
Resize(pool, n) ==
    [pool EXCEPT !.data = [i \in 1 .. n |-> IF i <= Len(pool.data) THEN pool.data[i]
                                                                  ELSE DefaultValue]]

\* data[index] = object
Set(pool, index, object) == [pool EXCEPT !.data[index + 1] = object]

\* Fault: the resize without its guard, which drops the pools above componentId.
GrowPoolsAlways(pools, componentId) ==
    [i \in 1 .. componentId + 1 |-> IF i <= Len(pools) THEN pools[i] ELSE NullPool]

\* componentPools.resize(componentId + 1, nullptr) when componentId >= size()
GrowPools(pools, componentId) ==
    IF componentId >= Len(pools)
    THEN [i \in 1 .. componentId + 1 |-> IF i <= Len(pools) THEN pools[i] ELSE NullPool]
    ELSE pools

----------------------------------------------------------------------------
(* std::vector<Signature> entityComponentSignatures *)

\* reserve(n): nothing when n <= capacity(); otherwise new storage of n slots
\* into which the size() elements are moved.  The slots from size() on are
\* uninitialised memory: any value.
Reserve(store, size, n) ==
    IF n <= Len(store)
    THEN {store}
    ELSE {s \in [1 .. n -> Signature] : \A i \in 1 .. size : s[i] = store[i]}

\* Fault: the comparison with the entity's signature instead of the system's.
IsInterestedSwapped(entitySig, systemSig) == (entitySig \cap systemSig) = entitySig

\* (entityComponentSignature & systemComponentSignature) == systemComponentSignature
IsInterested(entitySig, systemSig) == (entitySig \cap systemSig) = systemSig

----------------------------------------------------------------------------
(* System *)

\* System::RequireComponent<T>() for each T of req in turn, as the constructor
\* of a concrete system calls it.  bitset::set throws std::out_of_range for a
\* position that is not below MAX_COMPONENTS.
RECURSIVE Construct(_, _, _, _, _)
Construct(req, ids, nxt, sig, order) ==
    IF req = <<>>
    THEN [thrown |-> FALSE, id |-> ids, nextId |-> nxt, componentSignature |-> sig,
          firstUse |-> order]
    ELSE LET g == GetId(ids, nxt, Head(req))
         IN IF g.ret >= MAX_COMPONENTS
            THEN [thrown |-> TRUE, id |-> g.id, nextId |-> g.nextId,
                  componentSignature |-> sig, firstUse |-> Used(order, Head(req))]
            ELSE Construct(Tail(req), g.id, g.nextId, sig \cup {g.ret},
                           Used(order, Head(req)))

\* System::RemoveEntityFromSystem: erase(remove_if(.. entity == other ..))
RemoveEntityFromSystem(system, entity) ==
    [system EXCEPT !.entities = SelectSeq(@, LAMBDA other : ~(entity = other))]

SystemAssignEntity(system, entity) == [system EXCEPT !.entities = <<entity>>]

\* System::AddEntityToSystem: entities.push_back(entity)
SystemAddEntity(system, entity) == [system EXCEPT !.entities = Append(@, entity)]

\* Registry::AddEntityToSystem: every system whose signature the entity's
\* signature contains gets the entity.
AddEntityToSystem(sys, store, entity) ==
    [s \in DOMAIN sys |->
        IF IsInterested(store[entity + 1], sys[s].componentSignature)
        THEN SystemAddEntity(sys[s], entity)
        ELSE sys[s]]

\* Fault: the iteration of a std::set<Entity, std::greater<Entity>>.
InOrderDescending(S) ==
    CHOOSE q \in [1 .. Cardinality(S) -> S] :
        \A i, j \in 1 .. Cardinality(S) : i < j => q[i] > q[j]

\* The elements of a std::set<Entity> in iteration order (operator <, by id).
RECURSIVE InOrder(_)
InOrder(S) ==
    IF S = {} THEN <<>>
    ELSE LET m == CHOOSE x \in S : \A y \in S : x <= y
         IN <<m>> \o InOrder(S \ {m})

\* for (auto entity : entitiesToBeAdded) AddEntityToSystem(entity);
RECURSIVE UpdateLoop(_, _, _)
UpdateLoop(sys, store, pending) ==
    IF pending = <<>> THEN sys
    ELSE UpdateLoop(AddEntityToSystem(sys, store, Head(pending)), store, Tail(pending))

----------------------------------------------------------------------------
(* how a call ends *)

Returned == "returned"        \* the call returned
OutOfRange == "out_of_range"  \* std::out_of_range left the call
Abort == "abort"              \* the process has ended

Running == ret # Abort

\* entityComponentSignatures[entityId] with entityId >= size() is undefined:
\* a library built with assertions ends the process there, any other reads
\* or writes the reserved storage.
SignatureAccessDefined(entityId) == entityId < signaturesSize

Empty ==
    /\ numEntities = 0
    /\ entityComponentSignatures = <<>>
    /\ signaturesSize = 0
    /\ componentPools = <<>>
    /\ systems = <<>>
    /\ entitiesToBeAdded = {}
    /\ entitiesToBeKilled = {}
    /\ nextId = 0
    /\ id = [k \in Kinds |-> Unset]
    /\ created = <<>>
    /\ firstUse = <<>>
    /\ sinceUpdate = {}
    /\ drained = <<>>

\* The process ends in the middle of a call: nothing of its state is left.
Crash ==
    /\ numEntities' = 0
    /\ entityComponentSignatures' = <<>>
    /\ signaturesSize' = 0
    /\ componentPools' = <<>>
    /\ systems' = <<>>
    /\ entitiesToBeAdded' = {}
    /\ entitiesToBeKilled' = {}
    /\ nextId' = 0
    /\ id' = [k \in Kinds |-> Unset]
    /\ created' = <<>>
    /\ firstUse' = <<>>
    /\ sinceUpdate' = {}
    /\ drained' = <<>>
    /\ ret' = Abort

----------------------------------------------------------------------------
\* Registry(), and the zero-initialised statics
Init == Empty /\ ret = Returned

\* Fault: the pre-increment, "entityId = ++numEntities;".
CreateEntityPreIncrement ==
    /\ Running
    /\ numEntities < MaxEntities
    /\ LET entityId == numEntities + 1 IN
        /\ numEntities' = numEntities + 1
        /\ entitiesToBeAdded' = entitiesToBeAdded \cup {entityId}
        /\ IF entityId >= signaturesSize
           THEN entityComponentSignatures' \in
                    Reserve(entityComponentSignatures, signaturesSize, entityId + 1)
           ELSE UNCHANGED entityComponentSignatures
        /\ ret' = Returned
        /\ created' = Append(created, entityId)
        /\ sinceUpdate' = sinceUpdate \cup {entityId}
    /\ UNCHANGED <<signaturesSize, componentPools, systems, entitiesToBeKilled,
                   nextId, id, firstUse, drained>>

\* Fault: CreateEntity without "entitiesToBeAdded.insert(entity);".
CreateEntityNotPending ==
    /\ Running
    /\ numEntities < MaxEntities
    /\ LET entityId == numEntities IN
        /\ numEntities' = numEntities + 1
        /\ IF entityId >= signaturesSize
           THEN entityComponentSignatures' \in
                    Reserve(entityComponentSignatures, signaturesSize, entityId + 1)
           ELSE UNCHANGED entityComponentSignatures
        /\ ret' = Returned
        /\ created' = Append(created, entityId)
        /\ sinceUpdate' = sinceUpdate \cup {entityId}
    /\ UNCHANGED <<signaturesSize, componentPools, systems, entitiesToBeAdded,
                   entitiesToBeKilled, nextId, id, firstUse, drained>>

\* Registry::CreateEntity
CreateEntity ==
    /\ Running
    /\ numEntities < MaxEntities
    /\ LET entityId == numEntities IN
        /\ numEntities' = numEntities + 1
        /\ entitiesToBeAdded' = entitiesToBeAdded \cup {entityId}
        /\ IF entityId >= signaturesSize
           THEN entityComponentSignatures' \in
                    Reserve(entityComponentSignatures, signaturesSize, entityId + 1)
           ELSE UNCHANGED entityComponentSignatures
        /\ ret' = Returned
        /\ created' = Append(created, entityId)
        /\ sinceUpdate' = sinceUpdate \cup {entityId}
    /\ UNCHANGED <<signaturesSize, componentPools, systems, entitiesToBeKilled,
                   nextId, id, firstUse, drained>>

\* The pool of AddComponent after "if (entityId >= componentPool->GetSize())
\* componentPool->Resize(numEntities);" and "componentPool->Set(entityId, ..)".
StoreComponent(pool, entityId, n, object) ==
    Set(IF entityId >= GetSize(pool) THEN Resize(pool, n) ELSE pool, entityId, object)

\* componentPools of AddComponent once the component is stored (ECS.h:218-235)
PoolsAfterAdd(pools, componentId, entityId, n, object) ==
    LET grown == GrowPools(pools, componentId)
        made == IF grown[componentId + 1].alloc THEN grown
                ELSE [grown EXCEPT ![componentId + 1] = NewPool]
    IN [made EXCEPT ![componentId + 1] = StoreComponent(@, entityId, n, object)]

\* Faults: bitset::flip(pos) and bitset::reset() in the place of set(pos, false).
FlipBit(sig, pos) == IF pos \in sig THEN sig \ {pos} ELSE sig \cup {pos}
ResetBits(sig, pos) == {}

\* bitset::set(pos) and bitset::set(pos, false)
SetBit(sig, pos) == sig \cup {pos}
ClearBit(sig, pos) == sig \ {pos}

\* bitset::test(pos), as 0 or 1
TestBit(sig, pos) == IF pos \in sig THEN 1 ELSE 0

\* const auto componentId = Component<TComponent>::GetId();
CallGetId(k) ==
    /\ id' = GetId(id, nextId, k).id
    /\ nextId' = GetId(id, nextId, k).nextId
    /\ firstUse' = Used(firstUse, k)

\* Fault: AddComponent that matches the entity to the systems at once.
AddComponentMatching(entity, k, v) ==
    /\ Running
    /\ LET componentId == GetId(id, nextId, k).ret IN
        \/ /\ ~SignatureAccessDefined(entity)
           /\ Crash
        \/ /\ CallGetId(k)
           /\ componentPools' = PoolsAfterAdd(componentPools, componentId, entity,
                                              numEntities, v)
           /\ IF componentId >= MAX_COMPONENTS
              THEN /\ ret' = OutOfRange
                   /\ UNCHANGED <<entityComponentSignatures, systems>>
              ELSE /\ ret' = Returned
                   /\ entityComponentSignatures' =
                        [entityComponentSignatures EXCEPT ![entity + 1] = SetBit(@, componentId)]
                   /\ systems' = AddEntityToSystem(systems, entityComponentSignatures',
                                                   entity)
           /\ UNCHANGED <<numEntities, signaturesSize, entitiesToBeAdded,
                          entitiesToBeKilled, created, sinceUpdate, drained>>

\* Registry::AddComponent<T>(entity, args...), T = k, TComponent(args...) = v
AddComponent(entity, k, v) ==
    /\ Running
    /\ LET componentId == GetId(id, nextId, k).ret IN
        \/ /\ ~SignatureAccessDefined(entity)
           /\ Crash
        \/ /\ CallGetId(k)
           /\ componentPools' = PoolsAfterAdd(componentPools, componentId, entity,
                                              numEntities, v)
           /\ IF componentId >= MAX_COMPONENTS
              THEN /\ ret' = OutOfRange
                   /\ UNCHANGED entityComponentSignatures
              ELSE /\ ret' = Returned
                   /\ entityComponentSignatures' =
                        [entityComponentSignatures EXCEPT ![entity + 1] = SetBit(@, componentId)]
           /\ UNCHANGED <<numEntities, signaturesSize, systems, entitiesToBeAdded,
                          entitiesToBeKilled, created, sinceUpdate, drained>>

\* Fault: RemoveComponent that takes the entity out of the systems it no
\* longer matches.
RemoveComponentUnmatching(entity, k) ==
    /\ Running
    /\ LET componentId == GetId(id, nextId, k).ret IN
        \/ /\ ~SignatureAccessDefined(entity)
           /\ Crash
        \/ /\ CallGetId(k)
           /\ IF componentId >= MAX_COMPONENTS
              THEN /\ ret' = OutOfRange
                   /\ UNCHANGED <<entityComponentSignatures, systems>>
              ELSE /\ ret' = Returned
                   /\ entityComponentSignatures' =
                        [entityComponentSignatures EXCEPT ![entity + 1] = ClearBit(@, componentId)]
                   /\ systems' =
                        [s \in DOMAIN systems |->
                            IF IsInterested(entityComponentSignatures'[entity + 1],
                                            systems[s].componentSignature)
                            THEN systems[s]
                            ELSE RemoveEntityFromSystem(systems[s], entity)]
           /\ UNCHANGED <<numEntities, signaturesSize, componentPools,
                          entitiesToBeAdded, entitiesToBeKilled, created, sinceUpdate,
                          drained>>

\* Registry::RemoveComponent<T>(entity)
RemoveComponent(entity, k) ==
    /\ Running
    /\ LET componentId == GetId(id, nextId, k).ret IN
        \/ /\ ~SignatureAccessDefined(entity)
           /\ Crash
        \/ /\ CallGetId(k)
           /\ IF componentId >= MAX_COMPONENTS
              THEN /\ ret' = OutOfRange
                   /\ UNCHANGED entityComponentSignatures
              ELSE /\ ret' = Returned
                   /\ entityComponentSignatures' =
                        [entityComponentSignatures EXCEPT ![entity + 1] = ClearBit(@, componentId)]
           /\ UNCHANGED <<numEntities, signaturesSize, componentPools, systems,
                          entitiesToBeAdded, entitiesToBeKilled, created, sinceUpdate,
                          drained>>

\* What Registry::HasComponent<T>(entity) returns, as 0 or 1, when it returns.
HasComponentResult(entity, k) ==
    TestBit(entityComponentSignatures[entity + 1], GetId(id, nextId, k).ret)

\* Registry::HasComponent<T>(entity)
HasComponent(entity, k) ==
    /\ Running
    /\ LET componentId == GetId(id, nextId, k).ret IN
        \/ /\ ~SignatureAccessDefined(entity)
           /\ Crash
        \/ /\ CallGetId(k)
           /\ ret' = IF componentId >= MAX_COMPONENTS THEN OutOfRange ELSE Returned
           /\ UNCHANGED <<registryVars, created, sinceUpdate, drained>>

\* componentPools[componentId] is a pool and entityId is an index of its data
PoolHolds(pools, componentId, entityId) ==
    /\ componentId < Len(pools)
    /\ pools[componentId + 1].alloc
    /\ entityId < GetSize(pools[componentId + 1])

\* Registry::GetComponent<T>(entity): no check of the pool vector's size, of
\* the pool pointer or of the index.  Outside them the behaviour is
\* undefined: the process ends, or the reference is to whatever lies there.
\* The values the returned reference may refer to:
GetComponentResults(entity, k) ==
    LET componentId == GetId(id, nextId, k).ret IN
        IF PoolHolds(componentPools, componentId, entity)
        THEN {componentPools[componentId + 1].data[entity + 1]}
        ELSE Values \cup {DefaultValue}

GetComponent(entity, k) ==
    /\ Running
    /\ LET componentId == GetId(id, nextId, k).ret IN
        \/ /\ ~PoolHolds(componentPools, componentId, entity)
           /\ Crash
        \/ /\ CallGetId(k)
           /\ ret' = Returned
           /\ UNCHANGED <<registryVars, created, sinceUpdate, drained>>

\* Fault: AddSystem with "systems[typeid(TSystem)] = newSystem;", which
\* replaces the instance that is already there.
AddSystemAssign(s, req) ==
    /\ Running
    /\ LET c == Construct(req, id, nextId, {}, firstUse)
           newSystem == [componentSignature |-> c.componentSignature, entities |-> <<>>]
       IN /\ id' = c.id
          /\ nextId' = c.nextId
          /\ firstUse' = c.firstUse
          /\ IF c.thrown
             THEN /\ ret' = OutOfRange
                  /\ UNCHANGED systems
             ELSE /\ ret' = Returned
                  /\ systems' = [t \in DOMAIN systems \cup {s} |->
                                    IF t = s THEN newSystem ELSE systems[t]]
    /\ UNCHANGED <<numEntities, entityComponentSignatures, signaturesSize,
                   componentPools, entitiesToBeAdded, entitiesToBeKilled,
                   created, sinceUpdate, drained>>

\* Registry::AddSystem<TSystem>(args...), TSystem = s, whose constructor
\* requires the kinds of req.  unordered_map::insert keeps the element that
\* is already there.
AddSystem(s, req) ==
    /\ Running
    /\ LET c == Construct(req, id, nextId, {}, firstUse)
           newSystem == [componentSignature |-> c.componentSignature, entities |-> <<>>]
       IN /\ id' = c.id
          /\ nextId' = c.nextId
          /\ firstUse' = c.firstUse
          /\ IF c.thrown
             THEN /\ ret' = OutOfRange
                  /\ UNCHANGED systems
             ELSE /\ ret' = Returned
                  /\ systems' = IF s \in DOMAIN systems THEN systems
                                ELSE [t \in DOMAIN systems \cup {s} |->
                                         IF t = s THEN newSystem ELSE systems[t]]
    /\ UNCHANGED <<numEntities, entityComponentSignatures, signaturesSize,
                   componentPools, entitiesToBeAdded, entitiesToBeKilled,
                   created, sinceUpdate, drained>>

\* Registry::RemoveSystem<TSystem>(): erase(find(..)).  erase(end()) is
\* undefined: the process ends, or nothing is erased.
RemoveSystem(s) ==
    /\ Running
    /\ IF s \in DOMAIN systems
       THEN /\ systems' = [t \in DOMAIN systems \ {s} |-> systems[t]]
            /\ ret' = Returned
            /\ drained' = [e \in DOMAIN drained |->
                               [drained[e] EXCEPT !.interested = @ \ {s}]]
            /\ UNCHANGED <<numEntities, entityComponentSignatures, signaturesSize,
                           componentPools, entitiesToBeAdded, entitiesToBeKilled,
                           nextId, id, created, firstUse, sinceUpdate>>
       ELSE \/ Crash
            \/ /\ ret' = Returned
               /\ UNCHANGED <<registryVars, nextId, id, created, firstUse,
                              sinceUpdate, drained>>

\* What Registry::HasSystem<TSystem>() returns: find(..) != end()
HasSystemResult(s) == s \in DOMAIN systems

\* Registry::HasSystem<TSystem>()
HasSystem(s) ==
    /\ Running
    /\ ret' = Returned
    /\ UNCHANGED <<registryVars, nextId, id, created, firstUse, sinceUpdate, drained>>

\* What Registry::GetSystem<TSystem>() returns, a copy of the instance.  With
\* no system of the kind it dereferences end(), which is undefined: the
\* process ends, or the copy is of whatever lies there.
GetSystemResults(s) ==
    IF s \in DOMAIN systems
    THEN {systems[s]}
    ELSE {[componentSignature |-> sig, entities |-> InOrder(S)] :
              sig \in Signature, S \in SUBSET (0 .. MaxEntities - 1)}

\* Registry::GetSystem<TSystem>()
GetSystem(s) ==
    /\ Running
    /\ \/ /\ s \notin DOMAIN systems
          /\ Crash
       \/ /\ ret' = Returned
          /\ UNCHANGED <<registryVars, nextId, id, created, firstUse, sinceUpdate,
                         drained>>

\* Fault: Update without "entitiesToBeAdded.clear();".
UpdateKeepPending ==
    /\ Running
    /\ \/ /\ \E e \in entitiesToBeAdded : ~SignatureAccessDefined(e)
          /\ Crash
       \/ /\ systems' = UpdateLoop(systems, entityComponentSignatures,
                                   InOrder(entitiesToBeAdded))
          /\ ret' = Returned
          /\ sinceUpdate' = {}
          /\ drained' = [e \in DOMAIN drained \cup entitiesToBeAdded |->
                            IF e \in entitiesToBeAdded
                            THEN [signature |-> entityComponentSignatures[e + 1],
                                  interested |->
                                      {s \in DOMAIN systems :
                                          systems[s].componentSignature \subseteq
                                              entityComponentSignatures[e + 1]}]
                            ELSE drained[e]]
          /\ UNCHANGED <<numEntities, entityComponentSignatures, signaturesSize,
                         componentPools, entitiesToBeAdded, entitiesToBeKilled,
                         nextId, id, created, firstUse>>

\* Registry::Update
Update ==
    /\ Running
    /\ \/ /\ \E e \in entitiesToBeAdded : ~SignatureAccessDefined(e)
          /\ Crash
       \/ /\ systems' = UpdateLoop(systems, entityComponentSignatures,
                                   InOrder(entitiesToBeAdded))
          /\ entitiesToBeAdded' = {}
          /\ ret' = Returned
          /\ sinceUpdate' = {}
          /\ drained' = [e \in DOMAIN drained \cup entitiesToBeAdded |->
                            IF e \in entitiesToBeAdded
                            THEN [signature |-> entityComponentSignatures[e + 1],
                                  interested |->
                                      {s \in DOMAIN systems :
                                          systems[s].componentSignature \subseteq
                                              entityComponentSignatures[e + 1]}]
                            ELSE drained[e]]
          /\ UNCHANGED <<numEntities, entityComponentSignatures, signaturesSize,
                         componentPools, entitiesToBeKilled, nextId, id, created,
                         firstUse>>

----------------------------------------------------------------------------
\* The entities CreateEntity has returned.
Entities == 0 .. numEntities - 1

\* What the constructors of the concrete systems require.
Requires == [s \in SysKinds |-> IF s = "S1" THEN <<"A">> ELSE <<"A", "B">>]

----------------------------------------------------------------------------
(* Entity: the handle CreateEntity returns *)

\* What the member "Registry* registry" of a handle can hold: the address of
\* the registry that created it, or any other pointer value.
ThisRegistry == "this"
RegistryPointers == {ThisRegistry, "indeterminate"}

\* Entity(int id): id(id) {} initialises the id only: the member registry
\* is left with whatever its storage held.  The objects it can construct:
Entity(entityId) == {[id |-> entityId, registry |-> r] : r \in RegistryPointers}

\* What Registry::CreateEntity has just returned: "Entity entity(entityId);
\* ... return entity;", no statement in between assigns entity.registry.
CreateEntityResults == Entity(numEntities - 1)

\* The handles CreateEntity has returned so far.
Handles == UNION {Entity(e) : e \in Entities}

\* registry->...: through a pointer that is not the registry the behaviour is
\* undefined; the process ends there.
\* Entity::AddComponent<T>(args...)
EntityAddComponent(h, k, v) ==
    IF h.registry = ThisRegistry THEN AddComponent(h.id, k, v) ELSE Running /\ Crash

\* Entity::RemoveComponent<T>()
EntityRemoveComponent(h, k) ==
    IF h.registry = ThisRegistry THEN RemoveComponent(h.id, k) ELSE Running /\ Crash

\* Entity::HasComponent<T>()
EntityHasComponent(h, k) ==
    IF h.registry = ThisRegistry THEN HasComponent(h.id, k) ELSE Running /\ Crash

\* Entity::GetComponent<T>()
EntityGetComponent(h, k) ==
    IF h.registry = ThisRegistry THEN GetComponent(h.id, k) ELSE Running /\ Crash

\* The registry with its systems: two component kinds, one payload.
Next ==
    \/ CreateEntity
    \/ \E e \in Entities, k \in {"A", "B"} : AddComponent(e, k, 1)
    \/ \E e \in Entities, k \in {"A", "B"} : RemoveComponent(e, k)
    \/ \E e \in Entities, k \in {"A", "B"} : HasComponent(e, k)
    \/ \E e \in Entities, k \in {"A", "B"} : GetComponent(e, k)
    \/ \E s \in SysKinds : AddSystem(s, Requires[s])
    \/ \E s \in SysKinds : RemoveSystem(s)
    \/ Update

Spec == Init /\ [][Next]_vars

\* The components of the entities: two component kinds, two payloads, no system.
NextComponents ==
    \/ CreateEntity
    \/ \E e \in Entities, k \in {"A", "B"}, v \in Values : AddComponent(e, k, v)
    \/ \E e \in Entities, k \in {"A", "B"} : RemoveComponent(e, k)
    \/ \E e \in Entities, k \in {"A", "B"} : HasComponent(e, k)
    \/ \E e \in Entities, k \in {"A", "B"} : GetComponent(e, k)
    \/ Update

SpecComponents == Init /\ [][NextComponents]_vars

\* The component type ids: every kind, first used by any of the callers of
\* GetId, on the first entity.
NextIds ==
    \/ numEntities = 0 /\ CreateEntity
    \/ \E e \in Entities \cap {0}, k \in Kinds : AddComponent(e, k, 1)
    \/ \E e \in Entities \cap {0}, k \in Kinds : RemoveComponent(e, k)
    \/ \E e \in Entities \cap {0}, k \in Kinds : HasComponent(e, k)
    \/ \E e \in Entities \cap {0}, k \in Kinds : GetComponent(e, k)
    \/ \E k \in Kinds : AddSystem("S1", <<k>>)

SpecIds == Init /\ [][NextIds]_vars

\* The systems of the registry: the entities carry the kind A only.
NextSystems ==
    \/ CreateEntity
    \/ \E e \in Entities : AddComponent(e, "A", 1)
    \/ \E s \in SysKinds : AddSystem(s, Requires[s])
    \/ \E s \in SysKinds : RemoveSystem(s)
    \/ \E s \in SysKinds : HasSystem(s)
    \/ \E s \in SysKinds : GetSystem(s)
    \/ Update

SpecSystems == Init /\ [][NextSystems]_vars

\* The components of the entities, reached through the handles of the
\* entities: two component kinds, one payload, no system.
NextEntity ==
    \/ CreateEntity
    \/ \E h \in Handles, k \in {"A", "B"} : EntityAddComponent(h, k, 1)
    \/ \E h \in Handles, k \in {"A", "B"} : EntityRemoveComponent(h, k)
    \/ \E h \in Handles, k \in {"A", "B"} : EntityHasComponent(h, k)
    \/ \E h \in Handles, k \in {"A", "B"} : EntityGetComponent(h, k)

SpecEntity == Init /\ [][NextEntity]_vars

----------------------------------------------------------------------------
(* Claims *)

\* entity is in the system's matched list
InList(system, entity) == \E i \in 1 .. Len(system.entities) : system.entities[i] = entity

\* C1, as stated: right after every Update(), for every created entity e and
\* every registered system s, e is in s's matched list if and only if e's
\* signature contained s's required signature when Update() last drained e -
\* systems registered after e was drained included.
C1_AsStated ==
    [][Update =>
        \A e \in DOMAIN drained' : \A s \in DOMAIN systems' :
            InList(systems'[s], e) <=>
                IsInterested(drained'[e].signature, systems'[s].componentSignature)]_vars

\* C1, amended: in every state, and so right after every Update(), for every
\* drained entity e and every registered system s, e is in s's matched list
\* if and only if s was registered when Update() drained e, has stayed
\* registered since, and e's signature contained s's required signature at
\* that moment.
C1_SignatureCorrectness ==
    \A e \in DOMAIN drained : \A s \in DOMAIN systems :
        InList(systems[s], e) <=> s \in drained[e].interested

\* Both cases of C1 at once: a drained entity in the list of a system that
\* saw it drained, and a system registered later whose required signature
\* the entity's drained signature contains.
C1_Witness ==
    /\ ret = Returned
    /\ \E e \in DOMAIN drained : \E s \in DOMAIN systems : InList(systems[s], e)
    /\ \E e \in DOMAIN drained : \E s \in DOMAIN systems :
          /\ s \notin drained[e].interested
          /\ systems[s].componentSignature # {}
          /\ IsInterested(drained[e].signature, systems[s].componentSignature)

\* C2: an entity created since the last Update() is in no system's matched
\* list, whatever was attached to it.
C2_DeferredVisibility ==
    \A e \in sinceUpdate : \A s \in DOMAIN systems : ~InList(systems[s], e)

\* An entity not yet drained that has a component stored and whose signature
\* contains the required signature of a registered system.
C2_Witness ==
    \E e \in sinceUpdate : \E s \in DOMAIN systems :
        /\ systems[s].componentSignature # {}
        /\ IsInterested(entityComponentSignatures[e + 1], systems[s].componentSignature)
        /\ \A c \in systems[s].componentSignature :
              /\ PoolHolds(componentPools, c, e)
              /\ componentPools[c + 1].data[e + 1] \in Values

\* A call of one of the operations that C3 names, which returned or threw.
C3_Call ==
    /\ ret' # Abort
    /\ \/ CreateEntity
       \/ \E e \in Entities, k \in Kinds, v \in Values : AddComponent(e, k, v)
       \/ \E e \in Entities, k \in Kinds : RemoveComponent(e, k)
       \/ \E e \in Entities, k \in Kinds : HasComponent(e, k)
       \/ \E e \in Entities, k \in Kinds : GetComponent(e, k)

\* C3: CreateEntity, AddComponent, RemoveComponent, HasComponent and
\* GetComponent leave every system's matched list as it is, elements and
\* order.
C3_OnlyUpdateSynchronizes == [][C3_Call => systems' = systems]_vars

\* A matched entity whose signature no longer contains the system's, beside
\* an entity with a stored component that waits for Update(): the calls of
\* C3 have acted on matched and on unmatched entities.
C3_Witness ==
    \E s \in DOMAIN systems : \E e1 \in Entities, e2 \in entitiesToBeAdded :
        /\ InList(systems[s], e1)
        /\ ~IsInterested(entityComponentSignatures[e1 + 1], systems[s].componentSignature)
        /\ IsInterested(entityComponentSignatures[e2 + 1], systems[s].componentSignature)
        /\ \E c \in 0 .. MAX_COMPONENTS - 1 :
              PoolHolds(componentPools, c, e2) /\ componentPools[c + 1].data[e2 + 1] \in Values

\* C4: the k-th CreateEntity returned the id k - 1, no id twice, and
\* numEntities is the number of CreateEntity calls so far.
C4_EntityIds ==
    /\ numEntities = Len(created)
    /\ \A i \in 1 .. Len(created) : created[i] = i - 1

\* Two entities created, with an Update() and an AddComponent in between.
C4_Witness ==
    /\ Len(created) >= 2
    /\ 0 \in DOMAIN drained
    /\ 1 \in sinceUpdate
    /\ componentPools # <<>>

\* C5: the signature table is as long as the number of entities created, so
\* every entity's id is one of its indices.
C5_SignatureTableSized == signaturesSize >= numEntities

\* The kinds have the ids 0, 1, 2, ... in the order of their first use,
\* whichever operation used them first; a kind never used has none; different
\* kinds have different ids.
C6_IdsInOrder ==
    /\ \A i \in 1 .. Len(firstUse) : id[firstUse[i]] = i - 1
    /\ \A k \in Kinds : (\E i \in 1 .. Len(firstUse) : firstUse[i] = k) \/ id[k] = Unset
    /\ \A k1, k2 \in Kinds : k1 # k2 /\ id[k1] # Unset => id[k1] # id[k2]

\* C6: in every state C6_IdsInOrder holds, and every GetId for a kind that has
\* an id returns that id, before the call and after it.
C6_TypeIdStability ==
    [][ret' # Abort =>
        /\ C6_IdsInOrder'
        /\ \A k \in Kinds :
              id[k] # Unset => GetId(id, nextId, k).ret = id[k]
                               /\ GetId(id', nextId', k).ret = id[k]]_vars

\* Every kind used, not in the order of the kinds' names, by RequireComponent
\* and by AddComponent among others.
C6_Witness ==
    /\ Len(firstUse) = Cardinality(Kinds)
    /\ firstUse[1] = "C"
    /\ firstUse[2] = "A"
    /\ systems # <<>>
    /\ componentPools # <<>>

\* C7: GetId fails rather than hand out an id that is not below
\* MAX_COMPONENTS, so every id is below MAX_COMPONENTS and no pool slot from
\* MAX_COMPONENTS on exists.
C7_KindLimit ==
    /\ \A k \in Kinds : id[k] < MAX_COMPONENTS
    /\ Len(componentPools) <= MAX_COMPONENTS

C9_RemoveClearsOnlyTheBit ==
    [][\A e \in Entities : \A k \in Kinds :
        LET componentId == GetId(id, nextId, k).ret IN
        (RemoveComponent(e, k) /\ ret' = Returned)
           => /\ HasComponentResult(e, k)' = 0
              /\ componentPools' = componentPools
              /\ entityComponentSignatures'[e + 1] \ {componentId} =
                    entityComponentSignatures[e + 1] \ {componentId}
              /\ \A o \in Entities \ {e} :
                    entityComponentSignatures'[o + 1] = entityComponentSignatures[o + 1]
              /\ entitiesToBeAdded' = entitiesToBeAdded]_vars

\* A pending entity with a stored payload whose bit is clear while another
\* bit of it and a bit of the other entity are set.
C9_Witness ==
    \E e \in entitiesToBeAdded : \E o \in Entities \ {e} : \E k \in Kinds :
        /\ id[k] # Unset
        /\ HasComponentResult(e, k) = 0
        /\ GetComponentResults(e, k) \subseteq Values
        /\ entityComponentSignatures[e + 1] # {}
        /\ entityComponentSignatures[o + 1] # {}

\* C10: no call makes a pool shorter or takes a pool away; a pool is made
\* with its default length and a pool that changes length gets numEntities
\* elements.
C10_PoolGrowth ==
    [][ret' # Abort =>
        /\ Len(componentPools') >= Len(componentPools)
        /\ \A c \in 1 .. Len(componentPools') :
              LET new == componentPools'[c]
                  old == IF c <= Len(componentPools) THEN componentPools[c] ELSE NullPool
              IN /\ old.alloc => new.alloc /\ GetSize(new) >= GetSize(old)
                 /\ new.alloc /\ ~old.alloc => GetSize(new) \in {PoolDefaultSize, numEntities}
                 /\ old.alloc /\ GetSize(new) # GetSize(old) => GetSize(new) = numEntities]_vars

\* A pool that has grown beyond its default length beside one that has not.
C10_Witness ==
    /\ ret = Returned
    /\ \E c1, c2 \in 1 .. Len(componentPools) :
          /\ componentPools[c1].alloc /\ GetSize(componentPools[c1]) > PoolDefaultSize
          /\ componentPools[c2].alloc /\ GetSize(componentPools[c2]) = PoolDefaultSize
          /\ GetSize(componentPools[c2]) < numEntities

\* A payload has been stored for (entity, componentId): AddComponent stores a
\* value of Values, a slot never written holds DefaultValue.
Attached(entity, componentId) ==
    /\ PoolHolds(componentPools, componentId, entity)
    /\ componentPools[componentId + 1].data[entity + 1] \in Values

\* What an Update() step appends to the list of the registered system s.
Appended(s) ==
    SubSeq(systems'[s].entities, Len(systems[s].entities) + 1, Len(systems'[s].entities))

\* C11: an Update() appends to the list of every registered system exactly the
\* pending entities whose signature contains the system's, each once, by
\* ascending id, and none that lacks a required kind: none for which a
\* required kind was never attached (entities 0 and 1 with A on 0 give [0]).
C11_MatchedListAfterUpdate ==
    [][(Update /\ ret' = Returned) =>
        /\ DOMAIN systems' = DOMAIN systems
        /\ \A s \in DOMAIN systems :
              LET req == systems[s].componentSignature
                  app == Appended(s)
              IN /\ Len(systems'[s].entities) >= Len(systems[s].entities)
                 /\ SubSeq(systems'[s].entities, 1, Len(systems[s].entities)) =
                       systems[s].entities
                 /\ {app[i] : i \in 1 .. Len(app)} =
                       {e \in entitiesToBeAdded : req \subseteq entityComponentSignatures[e + 1]}
                 /\ \A i, j \in 1 .. Len(app) : i < j => app[i] < app[j]
                 /\ \A i \in 1 .. Len(app) : \A c \in req : Attached(app[i], c)]_vars

\* C12: no call that returns takes an entity out of the list of a system that
\* stays registered: membership, once granted, is never revoked.
C12_MembershipNeverRevoked ==
    [][ret' # Abort =>
        \A s \in DOMAIN systems \cap DOMAIN systems' :
            \A e \in 0 .. MaxEntities - 1 :
                InList(systems[s], e) => InList(systems'[s], e)]_vars

\* An entity listed by a system, matched when drained, whose signature has lost
\* a required bit since, after the other entity was drained by a later Update().
C12_Witness ==
    /\ ret = Returned
    /\ numEntities = 2
    /\ DOMAIN drained = {0, 1}
    /\ \E s \in DOMAIN systems :
          /\ systems[s].entities = <<0>>
          /\ systems[s].componentSignature \subseteq drained[0].signature
          /\ ~(systems[s].componentSignature \subseteq entityComponentSignatures[0 + 1])

\* C13: the handle CreateEntity returns points back to the registry that
\* created it, and each of Entity::AddComponent, RemoveComponent, HasComponent
\* and GetComponent is the step of the same-named Registry operation on that
\* entity.
C13_HandleBackReference ==
    [][/\ CreateEntity => \A h \in CreateEntityResults' : h.registry = ThisRegistry
       /\ \A h \in Handles, k \in {"A", "B"} :
             /\ EntityAddComponent(h, k, 1) => AddComponent(h.id, k, 1)
             /\ EntityRemoveComponent(h, k) => RemoveComponent(h.id, k)
             /\ EntityHasComponent(h, k) => HasComponent(h.id, k)
             /\ EntityGetComponent(h, k) => GetComponent(h.id, k)]_vars

\* C14: GetComponent<K>(e) when no pool of K was ever created, or when e's id
\* is not below the length of K's pool, ends with an exception, without
\* returning a reference, and leaves the registry as it was.
C14_GetComponentChecked ==
    [][\A e \in Entities, k \in {"A", "B"} :
          (/\ GetComponent(e, k)
           /\ ~PoolHolds(componentPools, GetId(id, nextId, k).ret, e))
          => (ret' = OutOfRange /\ UNCHANGED registryVars)]_vars

\* C15: the pending-add set is the set of the entities created since the last
\* Update() (all the created entities before the first); it is empty when
\* Update() has returned; and an Update() that finds it empty changes no
\* system's list and nothing else of the registry.
C15_PendingAddAccounting ==
    [][/\ entitiesToBeAdded = sinceUpdate
       /\ entitiesToBeAdded' = sinceUpdate'
       /\ (Update /\ ret' = Returned) => entitiesToBeAdded' = {}
       /\ (Update /\ entitiesToBeAdded = {}) =>
             (ret' = Returned /\ UNCHANGED registryVars)]_vars

\* An entity drained by an Update() that listed it, and an entity created
\* since that is pending.
C15_Witness ==
    /\ ret = Returned
    /\ DOMAIN drained = {0}
    /\ entitiesToBeAdded = {1}
    /\ \E s \in DOMAIN systems : systems[s].entities = <<0>>

\* C16: AddSystem<S> with S registered leaves the systems, the instance of S
\* with its signature and its list included, as they were; HasSystem<S> is
\* true after an AddSystem<S> that returned, false after RemoveSystem<S>, and
\* changes in no other call.  (One instance per kind: systems is a map.)
C16_SystemUniqueness ==
    [][ret' # Abort =>
        \A s \in SysKinds :
            /\ (AddSystem(s, Requires[s]) /\ s \in DOMAIN systems) => systems' = systems
            /\ (AddSystem(s, Requires[s]) /\ ret' = Returned) => HasSystemResult(s)'
            /\ RemoveSystem(s) => ~HasSystemResult(s)'
            /\ (HasSystemResult(s)' /\ ~HasSystemResult(s)) =>
                  (AddSystem(s, Requires[s]) /\ ret' = Returned)
            /\ (~HasSystemResult(s)' /\ HasSystemResult(s)) => RemoveSystem(s)]_vars

\* A registered system with an entity in its list, which a second instance
\* would replace, and a system kind that is not registered.
C16_Witness ==
    /\ ret = Returned
    /\ \E s \in DOMAIN systems : Len(systems[s].entities) = 2
    /\ \E s \in SysKinds : ~HasSystemResult(s) /\ GetSystemResults(s) # {}

\* C17: an entity enters a system's list only in the Update() that drains it,
\* the first after its creation, and is pending for no Update() after that
\* one: whatever it acquires later, and whatever system is registered later,
\* no later call lists it.
C17_OneShotMatching ==
    [][/\ entitiesToBeAdded' \cap DOMAIN drained' = {}
       /\ \A s \in DOMAIN systems' : \A e \in 0 .. MaxEntities - 1 :
             (/\ InList(systems'[s], e)
              /\ ~(s \in DOMAIN systems /\ InList(systems[s], e)))
             => (/\ Update
                 /\ s \in DOMAIN systems
                 /\ e \in entitiesToBeAdded
                 /\ e \notin DOMAIN drained)]_vars

\* Every entity drained, one of them with the kinds a registered system
\* requires attached only after it was drained, and not in the system's list.
C17_Witness ==
    /\ ret = Returned
    /\ entitiesToBeAdded = {}
    /\ DOMAIN drained = {0, 1}
    /\ \E e \in DOMAIN drained : \E s \in DOMAIN systems :
          /\ systems[s].componentSignature # {}
          /\ ~(systems[s].componentSignature \subseteq drained[e].signature)
          /\ systems[s].componentSignature \subseteq entityComponentSignatures[e + 1]
          /\ \A c \in systems[s].componentSignature : Attached(e, c)
          /\ ~InList(systems[s], e)

\* C18: AddComponent<K>(e, v) stores within K's pool: when the call has
\* returned, the pool exists and e's id is below its length (the length it
\* had when the value was stored); a slot that holds a payload stays within
\* its pool in every later call, so that the pool is never shorter than the
\* number of entities for which K was set.
C18_WritesInBounds ==
    [][ret' # Abort =>
        /\ \A e \in Entities, k \in {"A", "B"}, v \in Values :
              AddComponent(e, k, v) =>
                  /\ PoolHolds(componentPools', GetId(id, nextId, k).ret, e)
                  /\ componentPools'[GetId(id, nextId, k).ret + 1].data[e + 1] = v
        /\ \A c \in 0 .. Len(componentPools) - 1 :
              /\ \A e \in Entities : Attached(e, c) => PoolHolds(componentPools', c, e)
              /\ Cardinality({e \in Entities : Attached(e, c)}) <=
                    GetSize(componentPools'[c + 1])]_vars

\* A payload of an entity whose id is not below the default length of a pool:
\* the store was preceded by the resize to numEntities.
C18_Witness ==
    /\ ret = Returned
    /\ \E c \in 0 .. Len(componentPools) - 1 : \E e \in Entities :
          /\ e >= PoolDefaultSize
          /\ Attached(e, c)
          /\ GetSize(componentPools[c + 1]) = numEntities
          /\ ~Attached(0, c)

\* C19: an AddComponent<K>(e, v) that returns touches the pair (e, K) only:
\* GetComponent<K>(e) then yields v and HasComponent<K>(e) is true, every
\* other pair of an entity and a kind keeps its signature bit and, where a
\* value was stored for it, that value (also when K's pool is resized), and
\* numEntities and the pending-add set are as before.
C19_AddComponentFrame ==
    [][\A e \in Entities, k \in {"A", "B"}, v \in Values :
        (AddComponent(e, k, v) /\ ret' = Returned) =>
            LET c == GetId(id, nextId, k).ret IN
            /\ GetComponentResults(e, k)' = {v}
            /\ HasComponentResult(e, k)' = 1
            /\ \A o \in Entities, d \in 0 .. MAX_COMPONENTS - 1 :
                  <<o, d>> # <<e, c>> =>
                      /\ d \in entityComponentSignatures'[o + 1] <=>
                            d \in entityComponentSignatures[o + 1]
                      /\ PoolHolds(componentPools, d, o) =>
                            /\ PoolHolds(componentPools', d, o)
                            /\ componentPools'[d + 1].data[o + 1] =
                                  componentPools[d + 1].data[o + 1]
            /\ numEntities' = numEntities
            /\ entitiesToBeAdded' = entitiesToBeAdded]_vars

\* Two payloads that differ in a pool that has been resized, with a payload
\* of the first entity in the other pool.
C19_Witness ==
    /\ ret = Returned
    /\ \E c, d \in 0 .. Len(componentPools) - 1 :
          /\ c # d
          /\ GetSize(componentPools[c + 1]) > PoolDefaultSize
          /\ Attached(0, c) /\ Attached(1, c) /\ Attached(0, d)
          /\ componentPools[c + 1].data[1] # componentPools[c + 1].data[2]

\* C20: the list of every system holds ids below numEntities in strictly
\* ascending order, and so each entity at most once.
C20_ListWellFormed ==
    \A s \in DOMAIN systems :
        LET l == systems[s].entities IN
        /\ \A i \in 1 .. Len(l) : l[i] \in 0 .. numEntities - 1
        /\ \A i, j \in 1 .. Len(l) : i < j => l[i] < l[j]

\* Two systems, one that lists both entities and one that lists the second
\* only.
C20_Witness ==
    /\ ret = Returned
    /\ \E s, t \in DOMAIN systems :
          /\ systems[s].entities = <<0, 1>>
          /\ systems[t].entities = <<1>>

====
